---- MODULE Spec2Model ----
(***************************************************************************)
(* Order creation with delivery-slot assignment.                           *)
(*                                                                         *)
(* createOrder opens a transaction on a query runner, but only the         *)
(* DeliverySlot update goes through queryRunner.manager; the Order,        *)
(* OrderItem and Notification rows are written through repositories of the *)
(* data source, i.e. on other connections that commit each statement on    *)
(* its own.  validateSlotAvailability reads through such a repository too,  *)
(* so it sees committed rows only.  Every await of createOrder is a point   *)
(* where other createOrder calls may run.                                   *)
(***************************************************************************)
EXTENDS Integers, FiniteSets, Sequences, Bags, TLC

\* ---------------------------------------------------------------- bounds
NumCalls == 2          \* concurrent createOrder calls
MaxCap   == 2          \* largest maxCapacity of a slot
MaxNow   == 2          \* the clock runs from 1 to MaxNow
MaxNotifs == 2         \* rows the stand-alone notifyUser calls may save
MaxItems == 2          \* line items of a request
MaxQty   == 2          \* largest quantity of a line item

Calls   == 1..NumCalls
SlotIds == {1, 2}      \* ids of the DeliverySlot rows present
UserIds == {1}         \* ids of the User rows present

\* orderInput.preferredSlotId is optional: Undefined stands for its absence
Undefined == -1
PreferredIds == {Undefined, 0} \cup SlotIds
InputUserIds == UserIds \cup {2}

\* a null DeliverySlot (findOneBy / assignDefaultSlot returned null)
NullSlot == [id |-> 0, isActive |-> FALSE, currentUsage |-> 0,
             maxCapacity |-> 0, startTime |-> 0]

VARIABLES
  slotTable,      \* committed DeliverySlot rows, by id
  orderTable,     \* committed Order rows
  itemTable,      \* committed OrderItem rows
  notifTable,     \* committed Notification rows
  published,      \* bag of the events published on "user:notification"
  now,            \* the clock (new Date())
  pc,             \* where each createOrder call stands
  input,          \* orderInput of each call
  txn,            \* state of each call's query-runner transaction
  pendingSlot,    \* the DeliverySlot update made inside the transaction
  deliverySlot,   \* local deliverySlot of each call
  method,         \* local slotAssignmentMethod of each call
  assigner,       \* what assignDefaultSlot returned to each call
  savedOrder,     \* id of the Order row each call saved (0: none yet)
  error,          \* the error each call threw ("" : none)
  inventoryValidation, \* local inventoryValidation of each call
  thrown,         \* where each call threw, and the error list it carries
  runner,         \* what each call asked of its query runner, and how often
  initialSlots,   \* the DeliverySlot rows as they were at the start
  lastCheck,      \* result of the last stand-alone validateSlotAvailability
  lastNotify,     \* the last stand-alone notifyUser call and its outcome
  lastItems       \* line items, price breakdown and the OrderItems built of them

vars == <<slotTable, orderTable, itemTable, notifTable, published, now, pc,
          input, txn, pendingSlot, deliverySlot, method,
          assigner, savedOrder, error, inventoryValidation, thrown, runner,
          initialSlots, lastCheck, lastNotify, lastItems>>

tables == <<slotTable, orderTable, itemTable, notifTable>>
locals == <<deliverySlot, method, assigner, savedOrder, inventoryValidation>>
journal == <<thrown, runner>>
probes == <<lastCheck, lastNotify, lastItems>>

\* ------------------------------------------------ validateSlotAvailability
Truthy(n) == n # Undefined /\ n # 0

findSlot(tbl, slotId) ==
  IF slotId \in DOMAIN tbl THEN tbl[slotId] ELSE NullSlot

\* faulty variant: the capacity check lets a slot at its capacity through
IsFullOffByOne(slot) == slot.currentUsage > slot.maxCapacity

IsFull(slot) == slot.currentUsage >= slot.maxCapacity

\* faulty variant: a slot that starts at the very instant of the check still counts
HasPassedStrict(slot, t) == slot.startTime < t

HasPassed(slot, t) == slot.startTime <= t

validateSlotAvailability(tbl, slotId, t) ==
  LET slot == findSlot(tbl, slotId) IN
  IF slot = NullSlot
    THEN [isAvailable |-> FALSE, slot |-> NullSlot, message |-> "not found"]
  ELSE IF ~slot.isActive
    THEN [isAvailable |-> FALSE, slot |-> slot, message |-> "inactive"]
  ELSE IF IsFull(slot)
    THEN [isAvailable |-> FALSE, slot |-> slot, message |-> "full"]
  ELSE IF HasPassed(slot, t)
    THEN [isAvailable |-> FALSE, slot |-> slot, message |-> "passed"]
  ELSE [isAvailable |-> TRUE, slot |-> slot, message |-> ""]

\* faulty variant: the check reserves a place in the slot it looks at
SlotsAfterValidationReserving(tbl, slotId) ==
  IF slotId \in DOMAIN tbl
    THEN [tbl EXCEPT ![slotId].currentUsage = @ + 1]
    ELSE tbl

\* the DeliverySlot rows after a call of validateSlotAvailability
SlotsAfterValidation(tbl, slotId) == tbl

NoValidation == [isAvailable |-> FALSE, slot |-> NullSlot, message |-> "none"]

\* lines 49-51: the read rejects and the function throws
ValidationThrew == [isAvailable |-> FALSE, slot |-> NullSlot, message |-> "threw"]

\* ------------------------------------------------------ external services
\* the line items and the price breakdown of a request
ItemLists == { <<[skuId |-> "A", qty |-> 2]>> }

calculatePrice(items) ==
  [totalAmount |-> 20, itemPrices |-> [A |-> 10], itemDiscounts |-> <<>>]

\* assignDefaultSlot(): some DeliverySlot row, or null
assignDefaultSlot(tbl) == {NullSlot} \cup {tbl[s] : s \in DOMAIN tbl}

\* `m[k] || 0`
MapGet(m, k) == IF k \in DOMAIN m /\ m[k] # 0 THEN m[k] ELSE 0

\* ------------------------------------------------------------ initial state
SlotRows(id) ==
  { [id |-> id, isActive |-> a, currentUsage |-> u, maxCapacity |-> m,
     startTime |-> t] :
      a \in BOOLEAN, u \in 0..MaxCap, m \in 1..MaxCap, t \in 1..(MaxNow + 1) }

SlotInvariant(slot) ==
  0 <= slot.currentUsage /\ slot.currentUsage <= slot.maxCapacity

SlotTables ==
  { tbl \in [SlotIds -> UNION {SlotRows(id) : id \in SlotIds}] :
      \A id \in SlotIds : tbl[id].id = id /\ SlotInvariant(tbl[id]) }

\* orderInput before the call reads it: a field is bound to its value when the
\* call first reads it, which leaves the choice of the value as free as if it
\* were made at the start of the call
NoInput == [userId |-> 0, preferredSlotId |-> Undefined, items |-> <<>>]

\* a stand-alone call: the id asked about, the instant of the call, the result
NoCheck == [slotId |-> Undefined, at |-> 0, result |-> NoValidation]

\* validateInventory's result before the call has asked for it
NoInventory == [valid |-> TRUE, errors |-> <<>>]

\* validateInventory(items): valid, or invalid with the list of its errors
InventoryResults ==
  { [valid |-> TRUE, errors |-> <<>>],
    [valid |-> FALSE, errors |-> <<"A out of stock">>] }

\* no throw yet; no call of the query runner yet
NotThrown == [at |-> "", errors |-> <<>>]
NoRunner == [commits |-> 0, rollbacks |-> 0, releases |-> 0]

\* the part of a DeliverySlot row createOrder hands to notifyUser (lines
\* 125-129), null for no row
SlotWindow(slot) == [id |-> slot.id, startTime |-> slot.startTime]
NullWindow == SlotWindow(NullSlot)

\* no stand-alone notifyUser call yet; no OrderItems built yet
NoContext == [slotAssignmentMethod |-> "", deliverySlot |-> NullWindow]
NoNotify == [orderId |-> 0, type |-> "", userId |-> 0, context |-> NoContext,
             outcome |-> "none", error |-> "", id |-> 0]
NoItems == [items |-> <<>>, priceDetails |-> calculatePrice(<<>>), rows |-> {},
            built |-> FALSE]

InitCommon ==
  /\ itemTable = {}
  /\ notifTable = {}
  /\ published = EmptyBag
  /\ now = 1
  /\ pc = [c \in Calls |-> "idle"]
  /\ input = [c \in Calls |-> NoInput]
  /\ txn = [c \in Calls |-> "none"]
  /\ pendingSlot = [c \in Calls |-> NullSlot]
  /\ deliverySlot = [c \in Calls |-> NullSlot]
  /\ method = [c \in Calls |-> "auto_assigned"]
  /\ assigner = [c \in Calls |-> "not_called"]
  /\ savedOrder = [c \in Calls |-> 0]
  /\ error = [c \in Calls |-> ""]
  /\ inventoryValidation = [c \in Calls |-> NoInventory]
  /\ thrown = [c \in Calls |-> NotThrown]
  /\ runner = [c \in Calls |-> NoRunner]
  /\ lastCheck = NoCheck
  /\ lastNotify = NoNotify

\* the rows the concurrent runs start from: slot 1 active in any state of use
\* or inactive and unused, slot 2 with a single free place; both start after
\* the clock's first instant
ContestedTables ==
  { tbl \in SlotTables :
      /\ tbl[1].maxCapacity = MaxCap /\ tbl[1].startTime = 2
      /\ tbl[1].isActive \/ tbl[1].currentUsage = 0
      /\ tbl[2] = [id |-> 2, isActive |-> TRUE, currentUsage |-> 0,
                   maxCapacity |-> 1, startTime |-> 2] }

Init ==
  /\ slotTable \in ContestedTables
  /\ initialSlots = slotTable
  /\ orderTable = {}
  /\ lastItems = NoItems
  /\ InitCommon

\* ---------------------------------------------------------------- createOrder
\* lines 31-35: the query runner starts the transaction
Start(c) ==
  /\ pc[c] = "idle"
  /\ \A d \in Calls : d < c => pc[d] # "idle"
  /\ \E its \in ItemLists : input' = [input EXCEPT ![c].items = its]
  /\ txn' = [txn EXCEPT ![c] = "active"]
  /\ pc' = [pc EXCEPT ![c] = "inventory"]
  /\ UNCHANGED <<tables, published, now, pendingSlot, locals, error,
                 initialSlots, probes, journal>>

\* faulty variant: the rollback keeps the transaction's update of the slot
DiscardPendingKeepsUpdate(tbl, pending) ==
  IF pending = NullSlot THEN tbl
  ELSE [tbl EXCEPT ![pending.id].currentUsage = pending.currentUsage]

\* the DeliverySlot rows once the transaction is rolled back
DiscardPending(tbl, pending) == tbl

\* lines 148-155: a throw inside the inner try is caught, the transaction is
\* rolled back, the query runner released and the error thrown again.  The
\* rollback changes no committed row, so it is taken in the step that throws.
ThrowWith(c, msg, errors) ==
  /\ error' = [error EXCEPT ![c] = msg]
  /\ thrown' = [thrown EXCEPT ![c] = [at |-> pc[c], errors |-> errors]]
  /\ slotTable' = DiscardPending(slotTable, pendingSlot[c])
  /\ pendingSlot' = [pendingSlot EXCEPT ![c] = NullSlot]
  /\ txn' = [txn EXCEPT ![c] = "rolledback"]
  /\ runner' = [runner EXCEPT ![c].rollbacks = @ + 1, ![c].releases = @ + 1]
  /\ pc' = [pc EXCEPT ![c] = "failed"]

\* faulty variant: the error is passed on without rolling the transaction back
ThrowWithoutRollback(c, msg) ==
  /\ error' = [error EXCEPT ![c] = msg]
  /\ thrown' = [thrown EXCEPT ![c] = [at |-> pc[c], errors |-> <<>>]]
  /\ runner' = [runner EXCEPT ![c].releases = @ + 1]
  /\ pc' = [pc EXCEPT ![c] = "failed"]
  /\ UNCHANGED <<slotTable, pendingSlot, txn>>

Throw(c, msg) == ThrowWith(c, msg, <<>>)

\* a step that does not throw leaves the transaction and the rows as they are
Proceed(c, next) ==
  /\ pc' = [pc EXCEPT ![c] = next]
  /\ UNCHANGED <<error, slotTable, pendingSlot, txn, journal>>

\* faulty variant: an invalid inventory does not stop the call
InventoryCheckIgnored(c, r) == Proceed(c, "user")

\* lines 40-46: an invalid inventory throws with the errors joined in the message
InventoryCheck(c, r) ==
  IF r.valid THEN Proceed(c, "user")
             ELSE ThrowWith(c, "Inventory validation failed", r.errors)

\* lines 38-46, step 1: validateInventory says valid or not
ValidateInventory(c) ==
  /\ pc[c] = "inventory"
  /\ \E r \in InventoryResults :
       /\ inventoryValidation' = [inventoryValidation EXCEPT ![c] = r]
       /\ InventoryCheck(c, r)
  /\ UNCHANGED <<orderTable, itemTable, notifTable, published, now, input,
                 deliverySlot, method, assigner, savedOrder, initialSlots,
                 probes>>

\* lines 48-52, step 2: the user must exist
LoadUser(c) ==
  /\ pc[c] = "user"
  /\ \E u \in InputUserIds :
       /\ input' = [input EXCEPT ![c].userId = u]
       /\ IF u \in UserIds THEN Proceed(c, "price")
                           ELSE Throw(c, "User not found")
  /\ UNCHANGED <<orderTable, itemTable, notifTable, published, now, locals,
                 initialSlots, probes>>

\* line 55, step 3
CalculatePrice(c) ==
  /\ pc[c] = "price"
  /\ pc' = [pc EXCEPT ![c] = "slot"]
  /\ UNCHANGED <<tables, published, now, input, txn, pendingSlot, locals,
                 error, initialSlots, probes, journal>>

\* the slot and the method lines 63-81 decide on from the validation result
MethodFor(preferred, v) ==
  IF ~Truthy(preferred) THEN "auto_assigned"
  ELSE IF v.isAvailable /\ v.slot # NullSlot THEN "user_selected"
  ELSE "fallback"

Incremented(slot) == [slot EXCEPT !.currentUsage = @ + 1]

\* lines 57-85, step 4 up to the first await after the validation
AllocateSlot(c) ==
  /\ pc[c] = "slot"
  /\ \E p \in PreferredIds :
     LET v == IF Truthy(p) THEN validateSlotAvailability(slotTable, p, now)
                           ELSE NoValidation
         m == MethodFor(p, v)
     IN /\ input' = [input EXCEPT ![c].preferredSlotId = p]
        /\ method' = [method EXCEPT ![c] = m]
        /\ slotTable' = IF Truthy(p) THEN SlotsAfterValidation(slotTable, p)
                                     ELSE slotTable
        /\ IF m = "user_selected"
             THEN /\ deliverySlot' = [deliverySlot EXCEPT ![c] = Incremented(v.slot)]
                  /\ pc' = [pc EXCEPT ![c] = "slot_save"]
             ELSE /\ UNCHANGED deliverySlot
                  /\ pc' = [pc EXCEPT ![c] = "assign_default"]
  /\ UNCHANGED <<orderTable, itemTable, notifTable, published, now, txn,
                 pendingSlot, assigner, savedOrder, inventoryValidation, error,
                 initialSlots, probes, journal>>

\* the row lock an uncommitted UPDATE of another transaction holds
RowLocked(c, slotId) ==
  \E d \in Calls \ {c} : txn[d] = "active" /\ pendingSlot[d].id = slotId

\* line 75: queryRunner.manager.save(DeliverySlot, deliverySlot)
SaveSlot(c) ==
  /\ pc[c] = "slot_save"
  /\ ~RowLocked(c, deliverySlot[c].id)
  /\ pendingSlot' = [pendingSlot EXCEPT ![c] = deliverySlot[c]]
  /\ pc' = [pc EXCEPT ![c] = "order_save"]
  /\ UNCHANGED <<tables, published, now, input, txn, locals, error,
                 initialSlots, probes, journal>>

\* faulty variant: createOrder reserves a place in the slot the assigner returned
DefaultSlotReserved(c, slot) ==
  /\ pendingSlot' = [pendingSlot EXCEPT ![c] = Incremented(slot)]
  /\ pc' = [pc EXCEPT ![c] = "order_save"]
  /\ UNCHANGED <<error, slotTable, txn, journal>>

\* lines 79 and 84: the slot the assigner returned is taken as it is, createOrder
\* neither counts it up nor saves it
DefaultSlotKept(c, slot) == Proceed(c, "order_save")

\* faulty variant: the result of the default assigner is not checked for null
NoSlotCheckMissing(c, slot) == DefaultSlotKept(c, slot)

\* lines 79/84 and 87-90: the default assigner, and the check of its result
NoSlotCheck(c, slot) ==
  IF slot = NullSlot THEN Throw(c, "No delivery slots available")
                     ELSE DefaultSlotKept(c, slot)

AssignDefault(c) ==
  /\ pc[c] = "assign_default"
  /\ \E slot \in assignDefaultSlot(slotTable) :
       /\ deliverySlot' = [deliverySlot EXCEPT ![c] = slot]
       /\ assigner' = [assigner EXCEPT ![c] =
                         IF slot = NullSlot THEN "none" ELSE "slot"]
       /\ NoSlotCheck(c, slot)
  /\ UNCHANGED <<orderTable, itemTable, notifTable, published, now, input,
                 method, savedOrder, inventoryValidation, initialSlots,
                 probes>>

\* the id the store generates for the row a call inserts: ids are fresh and
\* otherwise arbitrary, the model takes the number of the inserting call
NextId(c) == c

\* lines 95-104, step 5: orderRepository.save(newOrder)
NewOrder(c, id) ==
  [id |-> id, userId |-> input[c].userId,
   deliverySlotId |-> deliverySlot[c].id,
   totalAmount |-> calculatePrice(input[c].items).totalAmount,
   status |-> "pending"]

SaveOrder(c) ==
  /\ pc[c] = "order_save"
  /\ orderTable' = orderTable \cup {NewOrder(c, NextId(c))}
  /\ savedOrder' = [savedOrder EXCEPT ![c] = NextId(c)]
  /\ pc' = [pc EXCEPT ![c] = "items_save"]
  /\ UNCHANGED <<slotTable, itemTable, notifTable, published, now, input, txn,
                 pendingSlot, deliverySlot, method, assigner,
                 inventoryValidation, error, initialSlots, probes, journal>>

\* faulty variant: the discount is taken off the line, not off each unit
NewOrderItemLineDiscount(orderId, item, priceDetails, id) ==
  LET unitPrice == MapGet(priceDetails.itemPrices, item.skuId)
      discount  == MapGet(priceDetails.itemDiscounts, item.skuId)
  IN [id |-> id, orderId |-> orderId, skuId |-> item.skuId,
      quantity |-> item.qty, unitPrice |-> unitPrice, discount |-> discount,
      subtotal |-> unitPrice * item.qty - discount]

\* lines 106-120, step 6: one OrderItem per line item, saved as a batch
NewOrderItem(orderId, item, priceDetails, id) ==
  LET unitPrice == MapGet(priceDetails.itemPrices, item.skuId)
      discount  == MapGet(priceDetails.itemDiscounts, item.skuId)
  IN [id |-> id, orderId |-> orderId, skuId |-> item.skuId,
      quantity |-> item.qty, unitPrice |-> unitPrice, discount |-> discount,
      subtotal |-> (unitPrice - discount) * item.qty]

\* lines 107-117: orderInput.items.map(...), the rows numbered within the batch
BuildOrderItems(orderId, items, priceDetails, batch) ==
  { NewOrderItem(orderId, items[i], priceDetails, <<batch, i>>) :
      i \in DOMAIN items }

OrderItems(c) ==
  LET items == input[c].items
  IN BuildOrderItems(savedOrder[c], items, calculatePrice(items), NextId(c))

SaveItems(c) ==
  /\ pc[c] = "items_save"
  /\ itemTable' = itemTable \cup OrderItems(c)
  /\ pc' = [pc EXCEPT ![c] = "notify"]
  /\ UNCHANGED <<slotTable, orderTable, notifTable, published, now, input, txn,
                 pendingSlot, locals, error, initialSlots, probes, journal>>

\* ------------------------------------------------------------------ notifyUser
\* lines 8-38: NOTIFICATION_TEMPLATES, with the title of each template and
\* whether its text holds the {deliveryInfo} placeholder
Templates ==
  [order_created   |-> [title |-> "Order Confirmation", deliveryInfo |-> TRUE],
   order_confirmed |-> [title |-> "Order Confirmed", deliveryInfo |-> TRUE],
   order_shipped   |-> [title |-> "Order Shipped", deliveryInfo |-> TRUE],
   order_delivered |-> [title |-> "Order Delivered", deliveryInfo |-> FALSE],
   order_cancelled |-> [title |-> "Order Cancelled", deliveryInfo |-> FALSE],
   order_refunded  |-> [title |-> "Order Refunded", deliveryInfo |-> FALSE]]

\* keys every plain object inherits: NOTIFICATION_TEMPLATES[type] finds a
\* function there, which is truthy and has neither title nor template
ObjectMembers == {"toString"}

\* line 149: NOTIFICATION_TEMPLATES[type]
Lookup(type) ==
  IF type \in DOMAIN Templates THEN "own"
  ELSE IF type \in ObjectMembers THEN "inherited"
  ELSE "undefined"

NoTemplate == [title |-> "", deliveryInfo |-> FALSE]

TemplateOf(type) ==
  IF type \in DOMAIN Templates THEN Templates[type] ELSE NoTemplate

\* faulty variant: every type tag is taken to have a template
TemplateMissingNever(type) == FALSE

\* line 151: `!template`
TemplateMissing(type) == Lookup(type) = "undefined"

\* lines 166-172: content.replace on the undefined text of an inherited member
\* is a TypeError
InterpolationThrows(type) == Lookup(type) = "inherited"

\* faulty variant: the phrases of the chosen and of the replaced slot are swapped
DeliveryPhraseSwapped(m) ==
  CASE m = "user_selected" -> "Your preferred time slot was unavailable"
    [] m = "fallback" -> "Your selected delivery time"
    [] OTHER -> "Scheduled for"

\* lines 77-85: the phrase of formatDeliveryTime for a method tag
DeliveryPhrase(m) ==
  CASE m = "user_selected" -> "Your selected delivery time"
    [] m = "fallback" -> "Your preferred time slot was unavailable"
    [] OTHER -> "Scheduled for"

\* line 51: method and slot window are both given in additionalData
InContext(additionalData) ==
  /\ additionalData.deliverySlot # NullWindow
  /\ additionalData.slotAssignmentMethod # ""

Placeholder == [phrase |-> "Delivery details will be provided soon.", window |-> 0]

\* lines 43-126: the phrase and the window (its start) that is rendered after it
formatDeliveryTime(orderId, additionalData, orders, slots) ==
  IF InContext(additionalData)
  THEN [phrase |-> DeliveryPhrase(additionalData.slotAssignmentMethod),
        window |-> additionalData.deliverySlot.startTime]
  ELSE LET found == { o \in orders : o.id = orderId /\ o.deliverySlotId # 0 }
       IN IF found = {} THEN Placeholder
          ELSE [phrase |-> "Scheduled for",
                window |-> slots[(CHOOSE o \in found : TRUE).deliverySlotId].startTime]

\* lines 166-174: the template of the type with {orderId} and {deliveryInfo}
\* replaced; a template without {deliveryInfo} drops the phrase
Interpolate(type, orderId, deliveryInfo) ==
  [template |-> type, orderId |-> orderId,
   deliveryInfo |-> IF TemplateOf(type).deliveryInfo THEN deliveryInfo
                    ELSE [phrase |-> "", window |-> 0]]

\* faulty variant: the row is created already read
NewNotificationRead(orderId, type, userId, deliveryInfo, id) ==
  [id |-> id, userId |-> userId, orderId |-> orderId, type |-> type,
   title |-> TemplateOf(type).title,
   content |-> Interpolate(type, orderId, deliveryInfo), isRead |-> TRUE]

\* lines 176-183: the Notification row
NewNotification(orderId, type, userId, deliveryInfo, id) ==
  [id |-> id, userId |-> userId, orderId |-> orderId, type |-> type,
   title |-> TemplateOf(type).title,
   content |-> Interpolate(type, orderId, deliveryInfo), isRead |-> FALSE]

\* faulty variant: the event carries the order's id in place of the row's
EventWithOrderId(n) ==
  [userId |-> n.userId, orderId |-> n.orderId, type |-> n.type,
   title |-> n.title, content |-> n.content, notificationId |-> n.orderId + 1]

Event(n) ==
  [userId |-> n.userId, orderId |-> n.orderId, type |-> n.type,
   title |-> n.title, content |-> n.content, notificationId |-> n.id]

\* lines 189-196: pubsub.publish adds one event to the channel
Publish(channel, event) == channel (+) SetToBag({event})

\* the message of the error notifyUser throws before it saves anything
RenderError(type) ==
  IF TemplateMissing(type) THEN "Notification template not found"
  ELSE "TypeError"

\* lines 125-130 of createOrder: the additionalData it hands to notifyUser
ContextOf(c) ==
  [slotAssignmentMethod |-> method[c], deliverySlot |-> SlotWindow(deliverySlot[c])]

\* lines 122-130, step 7: notifyUser saves the row, then publishes
Notify(c) ==
  /\ pc[c] = "notify"
  /\ LET type == "order_created" IN
     IF TemplateMissing(type) \/ InterpolationThrows(type)
     THEN /\ Throw(c, RenderError(type))
          /\ UNCHANGED <<notifTable, published>>
     ELSE LET n == NewNotification(savedOrder[c], type, input[c].userId,
                     formatDeliveryTime(savedOrder[c], ContextOf(c),
                                        orderTable, slotTable),
                     NextId(c))
          IN /\ notifTable' = notifTable \cup {n}
             /\ published' = Publish(published, Event(n))
             /\ Proceed(c, "commit")
  /\ UNCHANGED <<orderTable, itemTable, now, input, locals, initialSlots,
                 probes>>

\* ------------------------------------------------------- end of transaction
\* the DeliverySlot rows once the transaction's UPDATE is committed
ApplyPending(tbl, pending) ==
  IF pending = NullSlot THEN tbl
  ELSE [tbl EXCEPT ![pending.id].currentUsage = pending.currentUsage]

\* line 133: queryRunner.commitTransaction()
Commit(c) ==
  /\ pc[c] = "commit"
  /\ slotTable' = ApplyPending(slotTable, pendingSlot[c])
  /\ pendingSlot' = [pendingSlot EXCEPT ![c] = NullSlot]
  /\ txn' = [txn EXCEPT ![c] = "committed"]
  /\ runner' = [runner EXCEPT ![c].commits = @ + 1]
  /\ pc' = [pc EXCEPT ![c] = "reread"]
  /\ UNCHANGED <<orderTable, itemTable, notifTable, published, now, input,
                 locals, error, thrown, initialSlots, probes>>

\* lines 136-147: the created order is read back and returned
Reread(c) ==
  /\ pc[c] = "reread"
  /\ runner' = [runner EXCEPT ![c].releases = @ + 1]
  /\ pc' = [pc EXCEPT ![c] = "done"]
  /\ UNCHANGED <<tables, published, now, input, txn, pendingSlot, locals,
                 error, thrown, initialSlots, probes>>

\* lines 141-151: the read after the commit rejects; the catch block then calls
\* rollbackTransaction on the committed transaction, which throws in its turn
RereadFails(c) ==
  /\ pc[c] = "reread"
  /\ error' = [error EXCEPT ![c] = "TransactionNotStartedError"]
  /\ thrown' = [thrown EXCEPT ![c] = [at |-> pc[c], errors |-> <<>>]]
  /\ runner' = [runner EXCEPT ![c].rollbacks = @ + 1, ![c].releases = @ + 1]
  /\ pc' = [pc EXCEPT ![c] = "failed"]
  /\ UNCHANGED <<tables, published, now, input, txn, pendingSlot, locals,
                 initialSlots, probes>>

\* an await of steps 3-8 rejects (the store or a collaborator fails); steps 1
\* and 2 fail through their own checks
FailingSteps == {"price", "slot", "slot_save", "assign_default", "order_save",
                 "items_save", "notify", "commit"}

Fail(c) ==
  /\ pc[c] \in FailingSteps
  /\ Throw(c, "PersistenceFailure")
  /\ UNCHANGED <<orderTable, itemTable, notifTable, published, now, input,
                 locals, initialSlots, probes>>

\* line 36 of validateSlotAvailability reads the clock, which advances
Tick ==
  /\ now < MaxNow
  /\ now' = now + 1
  /\ UNCHANGED <<tables, published, pc, input, txn, pendingSlot, locals,
                 error, initialSlots, probes, journal>>

Next ==
  \/ \E c \in Calls :
       \/ Start(c)
       \/ ValidateInventory(c)
       \/ LoadUser(c)
       \/ CalculatePrice(c)
       \/ AllocateSlot(c)
       \/ SaveSlot(c)
       \/ AssignDefault(c)
       \/ SaveOrder(c)
       \/ SaveItems(c)
       \/ Notify(c)
       \/ Commit(c)
       \/ Reread(c)
       \/ RereadFails(c)
       \/ Fail(c)

Spec == Init /\ [][Next]_vars

\* ------------------------------- validateSlotAvailability called on its own
ProbeIds == {0, 3} \cup SlotIds

ValidateCall(slotId) ==
  /\ \E r \in {validateSlotAvailability(slotTable, slotId, now), ValidationThrew} :
       lastCheck' = [slotId |-> slotId, at |-> now, result |-> r]
  /\ slotTable' = SlotsAfterValidation(slotTable, slotId)
  /\ UNCHANGED <<orderTable, itemTable, notifTable, published, now, pc, input,
                 txn, pendingSlot, locals, error, initialSlots, journal,
                 lastNotify, lastItems>>

InitValidate ==
  /\ slotTable \in SlotTables
  /\ initialSlots = slotTable
  /\ orderTable = {}
  /\ lastItems = NoItems
  /\ InitCommon

NextValidate ==
  \/ \E slotId \in ProbeIds : ValidateCall(slotId)
  \/ Tick

SpecValidate == InitValidate /\ [][NextValidate]_vars

\* ------------------------------------------- notifyUser called on its own
\* the type tags, contexts and stored orders the stand-alone calls are made with
NotifyTypes == {"order_created", "order_delivered", "order_archived", "toString"}

ProbeSlotTable ==
  [s \in SlotIds |-> [id |-> s, isActive |-> TRUE, currentUsage |-> 0,
                      maxCapacity |-> 1, startTime |-> s]]

Contexts ==
  [slotAssignmentMethod : {"", "user_selected", "fallback", "auto_assigned", "express"},
   deliverySlot : {NullWindow, SlotWindow(ProbeSlotTable[1])}]

ProbeOrder(slotId) ==
  [id |-> 1, userId |-> 1, deliverySlotId |-> slotId, totalAmount |-> 20,
   status |-> "pending"]

ProbeOrders == { {}, {ProbeOrder(0)}, {ProbeOrder(2)} }

\* the row a stand-alone call has saved
SavedNotification == CHOOSE n \in notifTable : n.id = lastNotify.id

\* lines 147-186: the template is looked up, the content rendered and the row
\* saved; a missing template, a failed rendering or a failed save throws
NotifyCall(orderId, type, userId, additionalData) ==
  /\ lastNotify.outcome # "saved"
  /\ Cardinality(notifTable) < MaxNotifs
  /\ LET call == [orderId |-> orderId, type |-> type, userId |-> userId,
                  context |-> additionalData]
         id == Cardinality(notifTable) + 1
         threw(msg) == /\ lastNotify' = call @@ [outcome |-> "threw", error |-> msg, id |-> 0]
                       /\ UNCHANGED notifTable
     IN IF TemplateMissing(type) \/ InterpolationThrows(type)
        THEN threw(RenderError(type))
        ELSE \/ threw("PersistenceFailure")
             \/ /\ notifTable' = notifTable \cup
                     {NewNotification(orderId, type, userId,
                        formatDeliveryTime(orderId, additionalData, orderTable, slotTable),
                        id)}
                /\ lastNotify' = call @@ [outcome |-> "saved", error |-> "", id |-> id]
  /\ UNCHANGED <<slotTable, orderTable, itemTable, published, now, pc, input,
                 txn, pendingSlot, locals, error, initialSlots, journal,
                 lastCheck, lastItems>>

\* lines 189-198: the event of the saved row is published and the row returned
NotifyPublish ==
  /\ lastNotify.outcome = "saved"
  /\ published' = Publish(published, Event(SavedNotification))
  /\ lastNotify' = [lastNotify EXCEPT !.outcome = "returned"]
  /\ UNCHANGED <<tables, now, pc, input, txn, pendingSlot, locals, error,
                 initialSlots, journal, lastCheck, lastItems>>

InitNotify ==
  /\ slotTable = ProbeSlotTable
  /\ initialSlots = slotTable
  /\ orderTable \in ProbeOrders
  /\ lastItems = NoItems
  /\ InitCommon

NextNotify ==
  \/ \E orderId \in {1, 2}, type \in NotifyTypes, userId \in UserIds,
        additionalData \in Contexts :
       NotifyCall(orderId, type, userId, additionalData)
  \/ NotifyPublish

SpecNotify == InitNotify /\ [][NextNotify]_vars

\* ----------------------------------------- the OrderItems of a price breakdown
\* the skus, unit prices and discounts the breakdowns are drawn from; a map
\* may lack any sku
Skus == {"A", "B"}
Prices == {0, 10}
Discounts == {0, 3}

PartialMaps(values) == UNION { [S -> values] : S \in SUBSET Skus }

ProbeItemLists ==
  UNION { [1..n -> [skuId : Skus, qty : 1..MaxQty]] : n \in 0..MaxItems }

ProbePriceDetails ==
  { [totalAmount |-> 0, itemPrices |-> p, itemDiscounts |-> d] :
      p \in PartialMaps(Prices), d \in PartialMaps(Discounts) }

BuildItems ==
  /\ ~lastItems.built
  /\ lastItems' = [lastItems EXCEPT
                     !.rows = BuildOrderItems(1, lastItems.items,
                                              lastItems.priceDetails, 1),
                     !.built = TRUE]
  /\ UNCHANGED <<tables, published, now, pc, input, txn, pendingSlot, locals,
                 error, initialSlots, journal, lastCheck, lastNotify>>

InitItems ==
  /\ slotTable = ProbeSlotTable
  /\ initialSlots = slotTable
  /\ orderTable = {}
  /\ lastItems \in { [items |-> items, priceDetails |-> priceDetails,
                      rows |-> {}, built |-> FALSE] :
                       items \in ProbeItemLists,
                       priceDetails \in ProbePriceDetails }
  /\ InitCommon

NextItems == BuildItems

SpecItems == InitItems /\ [][NextItems]_vars

\* ------------------------------------------------------------------ the claims
\* the calls that committed a reservation of slot s as the user's choice
Reservations(s) ==
  { c \in Calls : /\ txn[c] = "committed"
                  /\ method[c] = "user_selected"
                  /\ deliverySlot[c].id = s }

\* the rows a call has left in the Order, OrderItem and Notification tables
OrderRows(c) == { o \in orderTable : o.id = NextId(c) }
ItemRows(c)  == { i \in itemTable : i.orderId = NextId(c) }
NotifRows(c) == { n \in notifTable : n.orderId = NextId(c) }

\* the events published for the order of a call
EventsOf(c) == { e \in BagToSet(published) : e.orderId = NextId(c) }

\* C1: when all N calls prefer the same active, future slot with C < N places
\* left and all have returned an order, exactly C of them hold the slot as
\* user_selected, the others were served by the default assigner as fallback,
\* and the slot's usage was raised by C.
C1_ExactlyCapacityReserved ==
  \A s \in SlotIds :
    LET C == initialSlots[s].maxCapacity - initialSlots[s].currentUsage IN
    ( /\ \A c \in Calls : pc[c] = "done" /\ input[c].preferredSlotId = s
      /\ initialSlots[s].isActive
      /\ initialSlots[s].startTime > now
      /\ C < NumCalls )
    => /\ Cardinality({c \in Calls : method[c] = "user_selected"}) = C
       /\ \A c \in Calls : method[c] \in {"user_selected", "fallback"}
       /\ slotTable[s].currentUsage = initialSlots[s].currentUsage + C

\* C2: once all calls have returned an order, every slot's committed usage is
\* its initial usage plus the number of calls that reserved it as user_selected.
C2_UsageCountsReservations ==
  (\A c \in Calls : pc[c] = "done")
  => \A s \in SlotIds :
       slotTable[s].currentUsage =
         initialSlots[s].currentUsage + Cardinality(Reservations(s))

\* C3: every committed DeliverySlot row has 0 <= currentUsage <= maxCapacity.
C3_UsageWithinCapacity == \A s \in SlotIds : SlotInvariant(slotTable[s])

\* C3 witness: a slot filled to its capacity by committed reservations, two of
\* them made by concurrent calls that read the same usage.
C3_Witness ==
  \E s \in SlotIds :
    /\ slotTable[s].currentUsage = slotTable[s].maxCapacity
    /\ slotTable[s].currentUsage > initialSlots[s].currentUsage
    /\ \E c, d \in Reservations(s) : c # d /\ deliverySlot[c] = deliverySlot[d]

\* C4: a call that failed and rolled back has left no Order, OrderItem or
\* Notification row, and the DeliverySlot rows are those before the calls.
C4_FailureLeavesTablesUnchanged ==
  \A c \in Calls :
    (pc[c] = "failed" /\ txn[c] = "rolledback")
    => /\ OrderRows(c) = {} /\ ItemRows(c) = {} /\ NotifRows(c) = {}
       /\ (\A d \in Calls \ {c} : pc[d] = "idle") => slotTable = initialSlots

\* C5: an increment of currentUsage that was not committed leaves no trace: a
\* committed DeliverySlot row differs from its initial value only if some call
\* committed a user_selected reservation of it.
C5_IncrementRolledBack ==
  \A s \in SlotIds :
    slotTable[s] # initialSlots[s] => Reservations(s) # {}

\* C5 witness: a call saved its increment, saved its order, failed at a later
\* step and was rolled back; the committed usage is the one it had read.
C5_Witness ==
  \E c \in Calls :
    /\ pc[c] = "failed" /\ txn[c] = "rolledback"
    /\ method[c] = "user_selected"
    /\ savedOrder[c] # 0
    /\ slotTable[deliverySlot[c].id].currentUsage = deliverySlot[c].currentUsage - 1

\* C6: every committed Order row belongs to a committed call and has all its
\* OrderItem rows and its order_created Notification row.
C6_NoPartialOrders ==
  \A o \in orderTable :
    \E c \in Calls :
      /\ savedOrder[c] = o.id
      /\ txn[c] = "committed"
      /\ Cardinality(ItemRows(c)) = Len(input[c].items)
      /\ \E n \in NotifRows(c) : n.type = "order_created"

\* C7: the allocation step tags the outcome auto_assigned when no preferred
\* slot was supplied, user_selected (with that very slot) when the supplied
\* slot is reported available, and fallback when it is reported unavailable.
C7_MethodTag ==
  [][ \A c \in Calls :
        (pc[c] = "slot" /\ pc'[c] \in {"slot_save", "assign_default"})
        => LET p == input'[c].preferredSlotId
               available == validateSlotAvailability(slotTable, p, now).isAvailable
           IN IF p = Undefined
                THEN method'[c] = "auto_assigned" /\ pc'[c] = "assign_default"
              ELSE IF available
                THEN /\ method'[c] = "user_selected"
                     /\ deliverySlot'[c].id = p
                     /\ pc'[c] = "slot_save"
              ELSE method'[c] = "fallback" /\ pc'[c] = "assign_default" ]_vars

\* C8: a call whose default assigner returned no slot has failed with 'No
\* delivery slots available', is rolled back, and has no Order, OrderItem or
\* Notification row.
C8_NoSlotsIsFatal ==
  \A c \in Calls :
    assigner[c] = "none"
    => /\ pc[c] = "failed"
       /\ error[c] = "No delivery slots available"
       /\ txn[c] = "rolledback"
       /\ savedOrder[c] = 0
       /\ OrderRows(c) = {} /\ ItemRows(c) = {} /\ NotifRows(c) = {}

\* C8 witness: the assigner returned no slot after a preferred slot was found
\* unavailable, while another call has saved its order.
C8_Witness ==
  \E c \in Calls :
    /\ assigner[c] = "none"
    /\ method[c] = "fallback"
    /\ orderTable # {}

\* C9: a stand-alone validateSlotAvailability reports available iff the slot
\* exists, is active, has currentUsage < maxCapacity and starts strictly after
\* the instant of the call; otherwise the reason is the first that applies of
\* not found, inactive, full, passed.
C9_AvailabilityPredicate ==
  LET id == lastCheck.slotId
      r == lastCheck.result
      exists == id \in SlotIds
      row == slotTable[id]
  IN (id # Undefined /\ r # ValidationThrew)
     => /\ r.isAvailable <=> ( /\ exists
                               /\ row.isActive
                               /\ row.currentUsage < row.maxCapacity
                               /\ row.startTime > lastCheck.at )
        /\ ~exists => r.message = "not found"
        /\ (exists /\ ~row.isActive) => r.message = "inactive"
        /\ (exists /\ row.isActive /\ row.currentUsage >= row.maxCapacity)
             => r.message = "full"
        /\ ( exists /\ row.isActive /\ row.currentUsage < row.maxCapacity
             /\ row.startTime <= lastCheck.at ) => r.message = "passed"

\* C9 witness: an empty slot that starts at the very instant of the call is
\* reported as passed.
C9_Witness ==
  /\ lastCheck.slotId \in SlotIds
  /\ lastCheck.result.message = "passed"
  /\ slotTable[lastCheck.slotId].startTime = lastCheck.at
  /\ slotTable[lastCheck.slotId].currentUsage = 0

\* C10: whatever stand-alone validations have run and whatever they returned,
\* the DeliverySlot rows are the initial ones and no other table has a row.
C10_ValidationReadOnly ==
  /\ slotTable = initialSlots
  /\ orderTable = {} /\ itemTable = {} /\ notifTable = {}
  /\ published = EmptyBag

\* C10 witness: a validation reported a slot available and its row is unchanged.
C10_Witness ==
  /\ lastCheck.result.isAvailable
  /\ slotTable[lastCheck.slotId] = initialSlots[lastCheck.slotId]
  /\ slotTable[lastCheck.slotId].currentUsage < slotTable[lastCheck.slotId].maxCapacity

\* C11: a call whose inventory validation returned valid = false has failed
\* with the inventory error, which carries the list of errors returned, and
\* has written no Order, OrderItem, DeliverySlot or Notification row and
\* published nothing.
C11_InvalidInventoryIsFatal ==
  \A c \in Calls :
    ~inventoryValidation[c].valid
    => /\ pc[c] = "failed"
       /\ error[c] = "Inventory validation failed"
       /\ thrown[c].errors = inventoryValidation[c].errors
       /\ thrown[c].errors # <<>>
       /\ txn[c] = "rolledback"
       /\ pendingSlot[c] = NullSlot /\ deliverySlot[c] = NullSlot
       /\ OrderRows(c) = {} /\ ItemRows(c) = {} /\ NotifRows(c) = {}
       /\ EventsOf(c) = {}
       /\ (\A d \in Calls \ {c} : pc[d] = "idle")
            => /\ slotTable = initialSlots
               /\ orderTable = {} /\ itemTable = {} /\ notifTable = {}
               /\ published = EmptyBag

\* C11 witness: a call was refused for its inventory while another call has
\* saved an order.
C11_Witness ==
  \E c \in Calls :
    /\ ~inventoryValidation[c].valid
    /\ thrown[c].errors = <<"A out of stock">>
    /\ orderTable # {}


\* C12: a call that has reached its commit, and so every call that committed
\* and returned its order, has exactly one Notification row for its order; the
\* row is of type order_created, addressed to the order's user and unread.
C12_OneNotificationBeforeCommit ==
  \A c \in Calls :
    pc[c] \in {"commit", "reread", "done"}
    => /\ Cardinality(NotifRows(c)) = 1
       /\ \A n \in NotifRows(c) :
            /\ n.type = "order_created"
            /\ n.orderId = savedOrder[c]
            /\ n.userId = input[c].userId
            /\ \A o \in OrderRows(c) : o.userId = n.userId
            /\ n.isRead = FALSE

C12_Witness ==
  /\ \A c \in Calls : pc[c] = "done" /\ txn[c] = "committed"
                      /\ Cardinality(NotifRows(c)) = 1
  /\ Cardinality(notifTable) = NumCalls


\* C13: the notification of a createOrder call renders the method tag the slot
\* allocation decided: "Your selected delivery time" for user_selected, "Your
\* preferred time slot was unavailable" for fallback, "Scheduled for" for any
\* other tag, each followed by the window of the allocated slot.  Whenever
\* method and slot window are both in the context the stored order plays no
\* part; the phrase of the database lookup and the placeholder appear only when
\* one of the two is absent.  That second part is about formatDeliveryTime alone
\* and the same in every state, so it is evaluated where no call has started.
C13_MethodSurfaced ==
  /\ \A c \in Calls : \A n \in NotifRows(c) :
       LET info == n.content.deliveryInfo IN
       /\ method[c] \in {"user_selected", "fallback", "auto_assigned"}
       /\ method[c] = "user_selected" => info.phrase = "Your selected delivery time"
       /\ method[c] = "fallback" => info.phrase = "Your preferred time slot was unavailable"
       /\ method[c] = "auto_assigned" => info.phrase = "Scheduled for"
       /\ info.window = deliverySlot[c].startTime
       /\ deliverySlot[c] # NullSlot
  /\ (\A c \in Calls : pc[c] = "idle") =>
     \A ctx \in Contexts, orders \in ProbeOrders, orderId \in {1, 2} :
       LET info == formatDeliveryTime(orderId, ctx, orders, ProbeSlotTable)
           m == ctx.slotAssignmentMethod
           absent == m = "" \/ ctx.deliverySlot = NullWindow
           stored == { o \in orders : o.id = orderId /\ o.deliverySlotId # 0 }
       IN /\ ~absent =>
               /\ info.window = ctx.deliverySlot.startTime
               /\ info.phrase = IF m = "user_selected" THEN "Your selected delivery time"
                                ELSE IF m = "fallback"
                                     THEN "Your preferred time slot was unavailable"
                                     ELSE "Scheduled for"
          /\ absent /\ stored = {} => info = Placeholder
          /\ absent /\ stored # {} =>
               /\ info.phrase = "Scheduled for"
               /\ \E o \in stored : info.window = ProbeSlotTable[o.deliverySlotId].startTime

C13_Witness ==
  \E c, d \in Calls :
    /\ method[c] = "fallback" /\ method[d] = "user_selected"
    /\ \E n \in NotifRows(c) :
         n.content.deliveryInfo.phrase = "Your preferred time slot was unavailable"
    /\ \E n \in NotifRows(d) :
         n.content.deliveryInfo.phrase = "Your selected delivery time"

\* C14: a notifyUser call whose type tag has no registered template throws,
\* with the template-not-found error unless the tag names an inherited object
\* member; it saves no Notification row and publishes no event.
C14_UnknownTypeFails ==
  LET Registered == {"order_created", "order_confirmed", "order_shipped",
                     "order_delivered", "order_cancelled", "order_refunded"}
  IN /\ \A n \in notifTable : n.type \in Registered
     /\ \A e \in BagToSet(published) : e.type \in Registered
     /\ lastNotify.outcome # "none" /\ lastNotify.type \notin Registered
        => /\ lastNotify.outcome = "threw"
           /\ lastNotify.id = 0
           /\ lastNotify.type = "order_archived"
                => lastNotify.error = "Notification template not found"

C14_Witness ==
  /\ lastNotify.type = "order_archived"
  /\ lastNotify.outcome = "threw"
  /\ Cardinality(notifTable) = 1
  /\ BagCardinality(published) = 1

\* C17: every notifyUser call that returned has published exactly one event,
\* which carries the id, user, order, type, title and content of the row the
\* call saved; an event is published only for a row that is already saved, so
\* a call whose save failed publishes nothing.
C17_OneEventPerSavedRow ==
  /\ \A e \in BagToSet(published) :
       /\ CopiesIn(e, published) = 1
       /\ \E n \in notifTable :
            /\ e.notificationId = n.id /\ e.userId = n.userId
            /\ e.orderId = n.orderId /\ e.type = n.type
            /\ e.title = n.title /\ e.content = n.content
  /\ \A n \in notifTable :
       LET events == { e \in BagToSet(published) : e.notificationId = n.id }
       IN Cardinality(events) =
            IF lastNotify.outcome = "saved" /\ lastNotify.id = n.id THEN 0 ELSE 1
  /\ lastNotify.outcome = "returned"
     => \E e \in BagToSet(published) :
          /\ e.notificationId = lastNotify.id /\ e.userId = lastNotify.userId
          /\ e.orderId = lastNotify.orderId /\ e.type = lastNotify.type
  /\ lastNotify.outcome = "threw"
     => BagCardinality(published) = Cardinality(notifTable)

C17_Witness ==
  /\ lastNotify.outcome = "threw" /\ lastNotify.error = "PersistenceFailure"
  /\ Cardinality(notifTable) = 1
  /\ BagCardinality(published) = 1


\* C15: the OrderItems built for a request are exactly one per line item, each
\* with quantity = qty, unitPrice = the price map's entry for the sku or 0
\* when the map has none, discount = the discount map's entry or 0 when it has
\* none, and subtotal = (unitPrice - discount) * quantity; rows are built
\* whatever entries the maps lack.
C15_OneItemPerLine ==
  lastItems.built
  => LET items == lastItems.items
         prices == lastItems.priceDetails.itemPrices
         discounts == lastItems.priceDetails.itemDiscounts
     IN /\ Cardinality(lastItems.rows) = Len(items)
        /\ \A i \in 1..Len(items) :
             LET rows == { r \in lastItems.rows : r.id = <<1, i>> }
                 sku == items[i].skuId
                 unitPrice == IF sku \in DOMAIN prices THEN prices[sku] ELSE 0
                 discount == IF sku \in DOMAIN discounts THEN discounts[sku] ELSE 0
             IN /\ Cardinality(rows) = 1
                /\ \A r \in rows :
                     /\ r.skuId = sku
                     /\ r.orderId = 1
                     /\ r.quantity = items[i].qty
                     /\ r.unitPrice = unitPrice
                     /\ r.discount = discount
                     /\ r.subtotal = (unitPrice - discount) * items[i].qty

C15_Witness ==
  /\ lastItems.built
  /\ Len(lastItems.items) = MaxItems
  /\ \E r \in lastItems.rows :
       /\ r.skuId \notin DOMAIN lastItems.priceDetails.itemPrices
       /\ r.subtotal < 0
  /\ \E r \in lastItems.rows : r.unitPrice = 10 /\ r.discount = 3 /\ r.subtotal = 14


\* C16: the steps of a call take effect in the order inventory, user, price,
\* slot, order, items, notification, commit: an effect of a step is there only
\* if every earlier step was passed.  A call that failed at one of these steps
\* shows no effect of a later step, has had rollback invoked once and no
\* commit, and carries the error the failing step raised.
C16_StepsShortCircuit ==
  LET Rank(at) == CASE at = "inventory" -> 1
                    [] at = "user" -> 2
                    [] at = "price" -> 3
                    [] at \in {"slot", "slot_save", "assign_default"} -> 4
                    [] at = "order_save" -> 5
                    [] at = "items_save" -> 6
                    [] at = "notify" -> 7
                    [] at = "commit" -> 8
      ErrorsOf(at) == CASE at = "inventory" -> {"Inventory validation failed"}
                        [] at = "user" -> {"User not found"}
                        [] at = "assign_default" ->
                             {"No delivery slots available", "PersistenceFailure"}
                        [] OTHER -> {"PersistenceFailure"}
  IN \A c \in Calls :
       /\ deliverySlot[c] # NullSlot
            => inventoryValidation[c].valid /\ input[c].userId \in UserIds
       /\ OrderRows(c) # {} => deliverySlot[c] # NullSlot
       /\ ItemRows(c) # {} => OrderRows(c) # {}
       /\ NotifRows(c) # {} => ItemRows(c) # {}
       /\ EventsOf(c) # {} => NotifRows(c) # {}
       /\ runner[c].commits > 0 => EventsOf(c) # {}
       /\ pc[c] = "failed" /\ thrown[c].at # "reread"
          => LET r == Rank(thrown[c].at) IN
             /\ r < 4 => deliverySlot[c] = NullSlot
             /\ r < 5 => OrderRows(c) = {}
             /\ r < 6 => ItemRows(c) = {}
             /\ r < 7 => NotifRows(c) = {} /\ EventsOf(c) = {}
             /\ runner[c].commits = 0
             /\ runner[c].rollbacks = 1
             /\ txn[c] = "rolledback"
             /\ pendingSlot[c] = NullSlot
             /\ error[c] \in ErrorsOf(thrown[c].at)

C16_Witness ==
  \E c, d \in Calls :
    /\ pc[c] = "failed" /\ thrown[c].at = "order_save"
    /\ method[c] = "user_selected" /\ OrderRows(c) = {}
    /\ pc[d] = "failed" /\ thrown[d].at = "commit"
    /\ NotifRows(d) # {} /\ runner[d].rollbacks = 1


\* C18: a call that has ended has ended its transaction exactly once, by a
\* commit or by a rollback and not by both, and has released its query runner
\* exactly once.
C18_TransactionEndedOnce ==
  \A c \in Calls :
    pc[c] \in {"done", "failed"}
    => /\ runner[c].commits + runner[c].rollbacks = 1
       /\ runner[c].releases = 1

\* C19: no call whose transaction was rolled back has published an event for
\* its order.
C19_PublishedOnlyIfCommitted ==
  \A c \in Calls : txn[c] = "rolledback" => EventsOf(c) = {}

\* C20: a step of a call whose method is not user_selected leaves every
\* DeliverySlot row as it is, the committed rows as well as the update pending
\* in the call's transaction: only the user_selected path counts a slot up.
C20_DefaultPathWritesNoSlot ==
  [][ \A c \in Calls :
        pc'[c] # pc[c] /\ method'[c] # "user_selected"
        => /\ slotTable' = slotTable
           /\ pendingSlot'[c] = NullSlot /\ pendingSlot[c] = NullSlot ]_vars

C20_Witness ==
  \E c, d \in Calls :
    /\ pc[c] = "done" /\ method[c] = "fallback"
    /\ input[c].preferredSlotId \in SlotIds
    /\ deliverySlot[c].id # input[c].preferredSlotId
    /\ pc[d] = "done" /\ method[d] = "auto_assigned"
    /\ deliverySlot[d] # NullSlot
    /\ slotTable = initialSlots

====
